---------------------------- MODULE Spec2Model ----------------------------
(***************************************************************************)
(* A model of camera_service.py: the ASICamera object, the Flask routes    *)
(* that drive it, the streaming-loop worker (_capture_loop) and the        *)
(* sequence orchestrator (sequence_capture_loop).                          *)
(*                                                                         *)
(* The service runs with app.run(threaded=True): every HTTP request is     *)
(* served on its own thread and no handler takes a lock, so the steps of   *)
(* concurrent handlers interleave.  A step of the model is a stretch of    *)
(* code between two points where another thread's effect can be observed   *)
(* (a device call, a sleep, a join, a write of a shared flag).             *)
(*                                                                         *)
(* The vendor library behind asi_lib is outside the repository: its state  *)
(* is the record asi, and each call the code branches on may succeed or    *)
(* fail.                                                                   *)
(***************************************************************************)
EXTENDS Integers, Sequences, FiniteSets, TLC

(***************************************************************************)
(* Bounds of the model.                                                    *)
(***************************************************************************)
\* request threads that can be serving a route at the same time
NumReq == 2
\* requests served in one behaviour
MaxRequests == 3
\* requests of a behaviour that arrive while another transition is under way
MaxOverlaps == 1
\* thread objects for _capture_loop that can be alive at once
MaxWorkers == 2
\* thread objects for sequence_capture_loop that can be alive at once
MaxSeq == 2
\* status polls a wait loop makes before its time bound expires
MaxPolls == 2
\* frame pulls of the _capture_loop thread that is observed
MaxPulls == 21

(***************************************************************************)
(* Program constants.                                                      *)
(***************************************************************************)
ASI_SUCCESS == 0
ASI_IMG_RGB24 == 1
ASI_IMG_RAW16 == 2
ASI_ERROR_INVALID_ID == 2
ASI_ERROR_TIMEOUT == 11
ASI_ERROR_VIDEO_MODE_ACTIVE == 14
ASI_ERROR_EXPOSURE_IN_PROGRESS == 15
ASI_ERROR_GENERAL_ERROR == 16
ASI_EXP_IDLE == 0
ASI_EXP_WORKING == 1
ASI_EXP_SUCCESS == 2
ASI_EXP_FAILED == 3
\* capture_thread.join(timeout=2.0), in milliseconds
JOIN_TIMEOUT_MS == 2000
DEFAULT_GAIN == 50
DEFAULT_VIDEO_EXPOSURE == 100000
\* a video exposure whose frame pull outlasts the join of stop_stream
LONG_VIDEO_EXPOSURE == 20 * DEFAULT_VIDEO_EXPOSURE
MAX_COUNT == 10000
\* sequence_state['thread'].join(timeout=5.0), in milliseconds
SEQ_JOIN_TIMEOUT_MS == 5000
DEFAULT_EXPOSURE == 1000000

ReqThreads == 1..NumReq
SeqThreads == (NumReq + 1)..(NumReq + MaxSeq)
Threads == ReqThreads \cup SeqThreads
Workers == 1..MaxWorkers

VARIABLES
    camera,          \* the ASICamera instance: is_open, streaming, capture_thread,
                     \* frame_buffer ("new": a frame pulled since video capture
                     \* was started last, "old": one pulled before that)
    camera_state,    \* the camera_state dictionary
    sequence_state,  \* the sequence_state dictionary
    asi,             \* the device behind asi_lib
    th,              \* request threads and orchestrator threads
    worker,          \* _capture_loop threads
    requests,        \* number of requests served so far
    overlaps,        \* number of requests that arrived during another transition
    job,             \* the frames written for the job started last, and its history
    loop,            \* the locals of the _capture_loop thread that is observed:
                     \* consecutive_errors, the result of its last pull, whether
                     \* that pull printed the error line, the pulls made
    pacing,          \* the delay of sequence_capture_loop observed alone: the
                     \* interval and exposure it reads, the wait_time it sleeps
    last             \* the request that returned in the last step, if any

vars == <<camera, camera_state, sequence_state, asi, th, worker, requests, overlaps,
         job, loop, pacing, last>>

NoLast ==
    [t |-> 0, op |-> "none", code |-> 0, body |-> "", was_streaming |-> FALSE,
     success |-> "none", img |-> "unset", arg |-> 0, gain |-> 0]

IdleThread ==
    [op |-> "none", pc |-> "idle", stack |-> <<>>, was_streaming |-> FALSE,
     format_applied |-> FALSE, img |-> "unset", polls |-> 0, success |-> "none",
     arg |-> 0, error |-> "none"]

\* stopped: a stop_stream has cleared the streaming flag since the thread started
DeadWorker == [pc |-> "dead", timeout_ms |-> 0, stopped |-> FALSE]

\* clean: no stop was requested, the sink took every frame, and no
\* orchestrator of an earlier job was alive when the job started.
\* saved: the sequence positions of the files written since the job started,
\* kept for as long as the job is clean.
NoFrames == [saved |-> <<>>, clean |-> FALSE]

\* line 422: consecutive_errors = 0, no pull made yet
NewLoop == [consecutive_errors |-> 0, result |-> -1, reported |-> FALSE, pulls |-> 0]

\* no delay computed
NoPacing == [interval |-> 0, exposure |-> DEFAULT_EXPOSURE, wait_time |-> -1]

\* The module level: camera = ASICamera(), the two dictionaries, and the
\* camera.connect() of __main__ (line 1252), which may have failed.
InitProgram ==
    /\ \E ok \in BOOLEAN :
         /\ camera = [is_open |-> ok, streaming |-> FALSE, capture_thread |-> 0,
                      frame_buffer |-> "None"]
         /\ camera_state = [connected |-> ok, streaming |-> FALSE,
                            gain |-> DEFAULT_GAIN,
                            video_exposure |-> DEFAULT_VIDEO_EXPOSURE,
                            image_format |-> ASI_IMG_RGB24]
         /\ asi = [open |-> ok, video |-> FALSE, exp |-> ASI_EXP_IDLE,
                   img_type |-> ASI_IMG_RGB24]
    /\ sequence_state = [active |-> FALSE, total_count |-> 0, current_count |-> 0,
                         file_format |-> "JPEG", interval |-> 0, thread |-> 0]
    /\ th = [t \in Threads |-> IdleThread]
    /\ worker = [w \in Workers |-> DeadWorker]
    /\ requests = 0
    /\ overlaps = 0
    /\ job = NoFrames
    /\ loop = NewLoop
    /\ last = NoLast

Init == InitProgram /\ pacing = NoPacing

(***************************************************************************)
(* The device, as the code's calls see it.  Each operator gives the set of *)
(* <<result, next device state>> pairs a call can produce.                 *)
(***************************************************************************)
ASIStartVideoCapture(d) ==
    IF ~d.open THEN {<<ASI_ERROR_GENERAL_ERROR, d>>}
    ELSE {<<ASI_SUCCESS, [d EXCEPT !.video = TRUE]>>, <<ASI_ERROR_GENERAL_ERROR, d>>}

ASIStopVideoCapture(d) ==
    IF d.open THEN [d EXCEPT !.video = FALSE] ELSE d

ASIStartExposure(d) ==
    IF ~d.open THEN {<<ASI_ERROR_GENERAL_ERROR, d>>}
    ELSE IF d.video THEN {<<ASI_ERROR_VIDEO_MODE_ACTIVE, d>>}
    ELSE IF d.exp = ASI_EXP_WORKING THEN {<<ASI_ERROR_EXPOSURE_IN_PROGRESS, d>>}
    ELSE {<<ASI_SUCCESS, [d EXCEPT !.exp = ASI_EXP_WORKING]>>,
          <<ASI_ERROR_GENERAL_ERROR, d>>}

\* A running exposure may be found still running, finished or failed.
ASIGetExpStatus(d) ==
    IF ~d.open THEN {<<ASI_EXP_IDLE, d>>}
    ELSE IF d.exp = ASI_EXP_WORKING
         THEN {<<s, [d EXCEPT !.exp = s]>> :
                   s \in {ASI_EXP_WORKING, ASI_EXP_SUCCESS, ASI_EXP_FAILED}}
         ELSE {<<d.exp, d>>}

ASIStopExposure(d) ==
    IF d.open THEN [d EXCEPT !.exp = ASI_EXP_IDLE] ELSE d

ASIGetDataAfterExp(d) ==
    IF d.open /\ d.exp = ASI_EXP_SUCCESS
    THEN {ASI_SUCCESS, ASI_ERROR_GENERAL_ERROR}
    ELSE {ASI_ERROR_GENERAL_ERROR}

ASISetROIFormat(d, fmt) ==
    IF ~d.open THEN {<<ASI_ERROR_GENERAL_ERROR, d>>}
    ELSE {<<ASI_SUCCESS, [d EXCEPT !.img_type = fmt]>>, <<ASI_ERROR_GENERAL_ERROR, d>>}

\* The results of a frame pull that gives no frame: no camera of this id,
\* no frame within timeout_ms, any other error.
PullErrors == {ASI_ERROR_INVALID_ID, ASI_ERROR_TIMEOUT, ASI_ERROR_GENERAL_ERROR}

ASIGetVideoData(d) ==
    IF d.open /\ d.video THEN {ASI_SUCCESS} \cup PullErrors
    ELSE PullErrors

ASICloseCamera(d) ==
    [d EXCEPT !.open = FALSE, !.video = FALSE, !.exp = ASI_EXP_IDLE]

(***************************************************************************)
(* Calls and returns of a thread: stack holds the labels to return to.     *)
(***************************************************************************)
Call(rec, entry, ret) == [rec EXCEPT !.pc = entry, !.stack = <<ret>> \o rec.stack]

Return(rec) == [rec EXCEPT !.pc = Head(rec.stack), !.stack = Tail(rec.stack)]

\* A route returns its response; the thread is free for the next request.
\* gain is the 'gain' of the JSON that update_settings returns (line 1015).
ReplyGain(t, rec, code, body, gain) ==
    /\ th' = [th EXCEPT ![t] = IdleThread]
    /\ last' = [t |-> t, op |-> rec.op, code |-> code, body |-> body,
                was_streaming |-> rec.was_streaming, success |-> rec.success,
                img |-> rec.img, arg |-> rec.arg, gain |-> gain]

Reply(t, rec, code, body) == ReplyGain(t, rec, code, body, 0)

Respond(t, code, body) == Reply(t, th[t], code, body)

\* The locals of a route, or of a thread, that starts.
Enter(op) == [IdleThread EXCEPT !.op = op]

Alive(w) == w \in Workers /\ worker[w].pc # "dead"

LiveWorkers == {w \in Workers : Alive(w)}


\* Every step that is not the return of a route forgets the last response.
NoResponse == last' = NoLast

(***************************************************************************)
(* ASICamera.start_stream                                                  *)
(***************************************************************************)
\* A start that goes on whatever ASIStartVideoCapture returned, to compare
\* with launched.
launched_always(result) == TRUE

\* line 387: the results of ASIStartVideoCapture after which the stream starts
launched(result) == result = ASI_SUCCESS

\* lines 347-389: the is_open check, the controls and ASIStartVideoCapture
start_stream_begin(t) ==
    /\ th[t].pc = "st_begin"
    /\ IF ~camera.is_open
       THEN /\ th' = [th EXCEPT ![t] = Return([th[t] EXCEPT !.success = "False"])]
            /\ asi' = asi
       ELSE \E r \in ASIStartVideoCapture(asi) :
              /\ asi' = r[2]
              /\ th' = [th EXCEPT ![t] =
                          IF ~launched(r[1])
                          THEN Return([th[t] EXCEPT !.success = "False"])
                          ELSE [th[t] EXCEPT !.pc = "st_flag"]]
    /\ camera' = IF camera.is_open /\ asi'.video /\ camera.frame_buffer = "new"
                 THEN [camera EXCEPT !.frame_buffer = "old"]
                 ELSE camera
    /\ NoResponse
    /\ UNCHANGED <<camera_state, sequence_state, worker, requests, overlaps, job, loop, pacing>>

\* line 391
start_stream_flag(t) ==
    /\ th[t].pc = "st_flag"
    /\ camera' = [camera EXCEPT !.streaming = TRUE]
    /\ th' = [th EXCEPT ![t].pc = "st_thread"]
    /\ NoResponse
    /\ UNCHANGED <<camera_state, sequence_state, asi, worker, requests, overlaps, job, loop, pacing>>

FreeWorker == CHOOSE w \in Workers : ~Alive(w) /\ \A v \in Workers : ~Alive(v) => w <= v

\* lines 392-398: the second flag, the new _capture_loop thread, return True
start_stream_thread(t) ==
    /\ th[t].pc = "st_thread"
    /\ \E w \in Workers : ~Alive(w)
    /\ camera_state' = [camera_state EXCEPT !.streaming = TRUE]
    /\ worker' = [worker EXCEPT ![FreeWorker] =
                                  [pc |-> "check", timeout_ms |-> 0, stopped |-> FALSE]]
    /\ camera' = [camera EXCEPT !.capture_thread = FreeWorker]
    /\ th' = [th EXCEPT ![t] = Return([th[t] EXCEPT !.success = "True"])]
    /\ NoResponse
    /\ UNCHANGED <<sequence_state, asi, requests, overlaps, job, loop, pacing>>

(***************************************************************************)
(* ASICamera.stop_stream                                                   *)
(***************************************************************************)
\* lines 402-403
stop_stream_clear(t) ==
    /\ th[t].pc = "sp_clear"
    /\ camera' = [camera EXCEPT !.streaming = FALSE]
    /\ camera_state' = [camera_state EXCEPT !.streaming = FALSE]
    /\ th' = [th EXCEPT ![t].pc = "sp_join"]
    /\ NoResponse
    /\ worker' = [w \in Workers |->
                    IF Alive(w) THEN [worker[w] EXCEPT !.stopped = TRUE] ELSE worker[w]]
    /\ UNCHANGED <<sequence_state, asi, requests, overlaps, job, loop, pacing>>

\* join(timeout=2.0) gives up on a worker that is inside a frame pull whose
\* timeout is longer than the join's, or that goes on looping because the
\* streaming flag has been set again.
JoinTimesOut(w) ==
    /\ Alive(w)
    /\ \/ worker[w].pc = "pull" /\ worker[w].timeout_ms > JOIN_TIMEOUT_MS
       \/ camera.streaming /\ camera.is_open

JoinReturns(w) == ~Alive(w) \/ JoinTimesOut(w)

\* A stop_stream that also ends the exposure, to compare with stop_video.
stop_video_and_exposure(d) ==
    IF camera.is_open THEN ASIStopExposure(ASIStopVideoCapture(d)) ELSE d

\* lines 408-414
stop_video(d) == IF camera.is_open THEN ASIStopVideoCapture(d) ELSE d

\* lines 405-414: the bounded join, then ASIStopVideoCapture on an open device
stop_stream_join(t) ==
    /\ th[t].pc = "sp_join"
    /\ JoinReturns(camera.capture_thread)
    /\ asi' = stop_video(asi)
    /\ th' = [th EXCEPT ![t] = Return(th[t])]
    /\ NoResponse
    /\ UNCHANGED <<camera, camera_state, sequence_state, worker, requests, overlaps, job, loop, pacing>>

(***************************************************************************)
(* ASICamera._capture_loop                                                 *)
(***************************************************************************)
Max(a, b) == IF a >= b THEN a ELSE b
Min(a, b) == IF a <= b THEN a ELSE b

\* A timeout that is not clamped, to compare with timeout_ms.
timeout_ms_unclamped(video_exposure) == (video_exposure * 2) \div 1000 + 500

\* lines 427-429
timeout_ms(video_exposure) ==
    Max(100, Min((video_exposure * 2) \div 1000 + 500, 5000))

\* line 424 and lines 427-438: the loop test, then the call of ASIGetVideoData
capture_loop_check(w) ==
    /\ worker[w].pc = "check"
    /\ worker' = [worker EXCEPT ![w] =
                    IF camera.streaming /\ camera.is_open
                    THEN [worker[w] EXCEPT
                             !.pc = "pull",
                             !.timeout_ms = timeout_ms(camera_state.video_exposure)]
                    ELSE DeadWorker]
    /\ NoResponse
    /\ UNCHANGED <<camera, camera_state, sequence_state, asi, th, requests, overlaps, job, loop, pacing>>

\* A loop that drops the frame it has pulled, to compare with pulled_frame.
dropped_frame(result, old) == old

\* lines 440-449: the latest-frame slot after a pull
pulled_frame(result, old) == IF result = ASI_SUCCESS THEN "new" ELSE old

\* lines 440-454: consecutive_errors and the error line after a pull.  The
\* literal 2 of line 450 ("2 = timeout") is ASI_ERROR_INVALID_ID in the
\* SDK's enumeration (line 557); ASI_ERROR_TIMEOUT is 11 (line 562).
after_pull(result, l) ==
    LET n == l.consecutive_errors + 1 IN
    IF result = ASI_SUCCESS
    THEN [l EXCEPT !.consecutive_errors = 0, !.result = result,
                   !.reported = FALSE, !.pulls = @ + 1]
    ELSE IF result # ASI_ERROR_INVALID_ID
         THEN [l EXCEPT !.consecutive_errors = n, !.result = result,
                        !.reported = (n = 1 \/ n % 10 = 0), !.pulls = @ + 1]
         ELSE [l EXCEPT !.result = result, !.reported = FALSE, !.pulls = @ + 1]

\* lines 440-458: ASIGetVideoData returns.  consecutive_errors feeds the log
\* only: it is followed for the thread that is observed.
capture_loop_pull(w, observed) ==
    /\ worker[w].pc = "pull"
    /\ observed => loop.pulls < MaxPulls
    /\ \E result \in ASIGetVideoData(asi) :
         /\ camera' = [camera EXCEPT !.frame_buffer = pulled_frame(result, @)]
         /\ loop' = IF observed THEN after_pull(result, loop) ELSE loop
    /\ worker' = [worker EXCEPT ![w] = [@ EXCEPT !.pc = "check", !.timeout_ms = 0]]
    /\ NoResponse
    /\ UNCHANGED <<camera_state, sequence_state, asi, th, requests, overlaps, job, pacing>>

(***************************************************************************)
(* ASICamera.capture_snapshot                                              *)
(***************************************************************************)
\* An exception leaves capture_snapshot for the handler of the caller:
\* snapshot (line 860) or sequence_capture_loop (line 697).
Raise(rec, error) ==
    [rec EXCEPT !.pc = IF rec.op = "snapshot" THEN "snap_except" ELSE "seq_except",
                !.stack = <<>>, !.polls = 0, !.error = error]

ReturnImg(rec, img) == Return([rec EXCEPT !.img = img, !.polls = 0])

\* lines 462-470
capture_snapshot_entry(t) ==
    /\ th[t].pc = "cap_entry"
    /\ th' = [th EXCEPT ![t] =
                IF ~camera.is_open THEN ReturnImg(th[t], "None")
                ELSE IF camera.streaming THEN Call(th[t], "sp_clear", "cap_again")
                ELSE [th[t] EXCEPT !.pc = "cap_start"]]
    /\ NoResponse
    /\ UNCHANGED <<camera, camera_state, sequence_state, asi, worker, requests, overlaps, job, loop, pacing>>

\* lines 476-479
capture_snapshot_again(t) ==
    /\ th[t].pc = "cap_again"
    /\ th' = [th EXCEPT ![t] =
                IF camera.streaming THEN Call(th[t], "sp_clear", "cap_start")
                ELSE [th[t] EXCEPT !.pc = "cap_start"]]
    /\ NoResponse
    /\ UNCHANGED <<camera, camera_state, sequence_state, asi, worker, requests, overlaps, job, loop, pacing>>

\* A capture that tries again after any rejection, to compare with retried.
retried_always(result) == TRUE

\* line 501: the rejections after which ASIStartExposure is tried again
retried(result) == result = ASI_ERROR_VIDEO_MODE_ACTIVE

\* lines 481-511, first attempt: the controls and ASIStartExposure
capture_snapshot_start(t) ==
    /\ th[t].pc = "cap_start"
    /\ \E r \in ASIStartExposure(asi) :
         /\ asi' = r[2]
         /\ th' = [th EXCEPT ![t] =
                     IF r[1] = ASI_SUCCESS THEN [th[t] EXCEPT !.pc = "cap_poll"]
                     ELSE IF retried(r[1])
                          THEN [th[t] EXCEPT !.pc = "cap_retry_stop"]
                          ELSE ReturnImg(th[t], "None")]
    /\ NoResponse
    /\ UNCHANGED <<camera, camera_state, sequence_state, worker, requests, overlaps, job, loop, pacing>>

\* lines 502-505
capture_snapshot_retry_stop(t) ==
    /\ th[t].pc = "cap_retry_stop"
    /\ asi' = ASIStopVideoCapture(asi)
    /\ th' = [th EXCEPT ![t].pc = "cap_retry"]
    /\ NoResponse
    /\ UNCHANGED <<camera, camera_state, sequence_state, worker, requests, overlaps, job, loop, pacing>>

\* lines 506-509
capture_snapshot_retry(t) ==
    /\ th[t].pc = "cap_retry"
    /\ \E r \in ASIStartExposure(asi) :
         /\ asi' = r[2]
         /\ th' = [th EXCEPT ![t] =
                     IF r[1] = ASI_SUCCESS THEN [th[t] EXCEPT !.pc = "cap_poll"]
                     ELSE ReturnImg(th[t], "None")]
    /\ NoResponse
    /\ UNCHANGED <<camera, camera_state, sequence_state, worker, requests, overlaps, job, loop, pacing>>

\* A wait loop that forgets to count, to compare with waited.
waited_nothing(timeout) == timeout

\* lines 527, 828: timeout += 100
waited(timeout) == timeout + 1

\* A poll that goes on waiting after a Failed status, to compare with
\* after_status.
after_status_waiting(status) ==
    IF status = ASI_EXP_SUCCESS THEN "fetch" ELSE "wait"

\* lines 520-527: what the poll does with the status it has read
after_status(status) ==
    IF status = ASI_EXP_SUCCESS THEN "fetch"
    ELSE IF status = ASI_EXP_FAILED THEN "fail"
    ELSE "wait"

\* lines 522-525 and 529-532: how capture_snapshot leaves the poll when the
\* status is not Success.  status_names is a local of capture_snapshot that is
\* assigned on line 572 only, so line 523 (status Failed) and line 530 (time
\* bound reached) both raise UnboundLocalError before their return None.
poll_failure(status) == "UnboundLocalError"

\* lines 518-532: one turn of the status poll, or the exit on the time bound
capture_snapshot_poll(t) ==
    /\ th[t].pc = "cap_poll"
    /\ IF th[t].polls < MaxPolls
       THEN \E r \in ASIGetExpStatus(asi) :
              /\ asi' = r[2]
              /\ th' = [th EXCEPT ![t] =
                          CASE after_status(r[1]) = "fetch" ->
                                 [th[t] EXCEPT !.pc = "cap_fetch", !.polls = 0]
                            [] after_status(r[1]) = "fail" ->
                                 Raise(th[t], poll_failure(r[1]))
                            [] OTHER -> [th[t] EXCEPT !.polls = waited(@)]]
       ELSE /\ asi' = asi
            /\ th' = [th EXCEPT ![t] = Raise(th[t], poll_failure(asi.exp))]
    /\ NoResponse
    /\ UNCHANGED <<camera, camera_state, sequence_state, worker, requests, overlaps, job, loop, pacing>>

\* lines 534-608: ASIGetDataAfterExp and the decoding
capture_snapshot_fetch(t) ==
    /\ th[t].pc = "cap_fetch"
    /\ \E result \in ASIGetDataAfterExp(asi) :
         th' = [th EXCEPT ![t] =
                  ReturnImg(th[t], IF result = ASI_SUCCESS THEN "img" ELSE "None")]
    /\ NoResponse
    /\ UNCHANGED <<camera, camera_state, sequence_state, asi, worker, requests, overlaps, job, loop, pacing>>

(***************************************************************************)
(* The arrival of a request.  With serial, the client sends one request at *)
(* a time and, while a sequence job has a worker, only the sequence        *)
(* requests: no two transitions of the mode overlap.                       *)
(***************************************************************************)
NoJob == \A s \in SeqThreads : th[s].pc = "idle"

Busy == \E u \in ReqThreads : th[u].pc # "idle"

\* A request overlaps another transition when it arrives while a request is
\* being served or, unless it is a sequence request, while a job has a worker.
Overlapping(sequence_request) == Busy \/ (~sequence_request /\ ~NoJob)

\* Request threads are interchangeable: the lowest idle one serves.
Arrive(t, serial, sequence_request) ==
    /\ th[t].pc = "idle"
    /\ \A u \in ReqThreads : th[u].pc = "idle" => t <= u
    /\ requests < MaxRequests
    /\ IF serial THEN ~Overlapping(sequence_request)
       ELSE Overlapping(sequence_request) => overlaps < MaxOverlaps
    /\ requests' = requests + 1
    /\ overlaps' = IF Overlapping(sequence_request) THEN overlaps + 1 ELSE overlaps

(***************************************************************************)
(* connect_camera, disconnect_camera, start_stream, stop_stream (routes)   *)
(***************************************************************************)
\* lines 735-740 with ASICamera.connect, lines 164-271
route_connect(t, serial) ==
    /\ Arrive(t, serial, FALSE)
    /\ \/ /\ \E r \in ASISetROIFormat([asi EXCEPT !.open = TRUE],
                                         camera_state.image_format) : asi' = r[2]
          /\ camera' = [camera EXCEPT !.is_open = TRUE]
          /\ camera_state' = [camera_state EXCEPT !.connected = TRUE]
          /\ Reply(t, Enter("connect"), 200, "Camera connected")
       \/ /\ UNCHANGED <<asi, camera, camera_state>>
          /\ Reply(t, Enter("connect"), 500, "error")
    /\ UNCHANGED <<sequence_state, worker, job, loop, pacing>>

\* lines 742-746 with ASICamera.disconnect, line 275
route_disconnect(t, serial) ==
    /\ Arrive(t, serial, FALSE)
    /\ th' = [th EXCEPT ![t] = Call(Enter("disconnect"), "sp_clear", "disc_close")]
    /\ NoResponse
    /\ UNCHANGED <<camera, camera_state, sequence_state, asi, worker, job, loop, pacing>>

\* lines 276-280 and 746
disconnect_close(t) ==
    /\ th[t].pc = "disc_close"
    /\ asi' = IF camera.is_open THEN ASICloseCamera(asi) ELSE asi
    /\ camera' = [camera EXCEPT !.is_open = FALSE]
    /\ camera_state' = [camera_state EXCEPT !.connected = FALSE, !.streaming = FALSE]
    /\ Respond(t, 200, "Camera disconnected")
    /\ UNCHANGED <<sequence_state, worker, requests, overlaps, job, loop, pacing>>

\* lines 748-751
route_start_stream(t, serial) ==
    /\ Arrive(t, serial, FALSE)
    /\ th' = [th EXCEPT ![t] = Call(Enter("start_stream"), "st_begin", "start_done")]
    /\ NoResponse
    /\ UNCHANGED <<camera, camera_state, sequence_state, asi, worker, job, loop, pacing>>

\* lines 751-753
route_start_stream_done(t) ==
    /\ th[t].pc = "start_done"
    /\ IF th[t].success = "True" THEN Respond(t, 200, "Stream started")
       ELSE Respond(t, 500, "error")
    /\ UNCHANGED <<camera, camera_state, sequence_state, asi, worker, requests, overlaps, job, loop, pacing>>

\* lines 755-758
route_stop_stream(t, serial) ==
    /\ Arrive(t, serial, FALSE)
    /\ th' = [th EXCEPT ![t] = Call(Enter("stop_stream"), "sp_clear", "stop_done")]
    /\ NoResponse
    /\ UNCHANGED <<camera, camera_state, sequence_state, asi, worker, job, loop, pacing>>

\* line 759
route_stop_stream_done(t) ==
    /\ th[t].pc = "stop_done"
    /\ Respond(t, 200, "Stream stopped")
    /\ UNCHANGED <<camera, camera_state, sequence_state, asi, worker, requests, overlaps, job, loop, pacing>>

(***************************************************************************)
(* snapshot (route)                                                        *)
(***************************************************************************)
\* lines 764-780
route_snapshot(t, serial) ==
    /\ Arrive(t, serial, FALSE)
    /\ IF ~camera_state.connected \/ ~camera.is_open
       THEN Reply(t, Enter("snapshot"), 500, "Camera not connected")
       ELSE /\ th' = [th EXCEPT ![t] =
                        LET rec == [Enter("snapshot") EXCEPT
                                       !.was_streaming = camera.streaming]
                        IN  IF camera.streaming
                            THEN Call(rec, "sp_clear", "snap_format")
                            ELSE [rec EXCEPT !.pc = "snap_format"]]
            /\ NoResponse
    /\ UNCHANGED <<camera, camera_state, sequence_state, asi, worker, job, loop, pacing>>

\* lines 782-817: the photo format, and the early return when it is refused
snapshot_format(t) ==
    /\ th[t].pc = "snap_format"
    /\ IF camera_state.image_format # ASI_IMG_RGB24
       THEN \E r \in ASISetROIFormat(asi, camera_state.image_format) :
              /\ asi' = r[2]
              /\ IF r[1] = ASI_SUCCESS
                 THEN /\ th' = [th EXCEPT ![t].pc = "snap_idle",
                                          ![t].format_applied = TRUE]
                      /\ NoResponse
                 ELSE IF th[t].was_streaming
                 THEN /\ th' = [th EXCEPT ![t] = Call(th[t], "st_begin", "snap_refused")]
                      /\ NoResponse
                 ELSE Respond(t, 500, "Failed to set ROI format")
       ELSE /\ asi' = asi
            /\ th' = [th EXCEPT ![t] = Call(th[t], "cap_entry", "snap_resume")]
            /\ NoResponse
    /\ UNCHANGED <<camera, camera_state, sequence_state, worker, requests, overlaps, job, loop, pacing>>

\* line 813, after the stream was restarted
snapshot_refused(t) ==
    /\ th[t].pc = "snap_refused"
    /\ Respond(t, 500, "Failed to set ROI format")
    /\ UNCHANGED <<camera, camera_state, sequence_state, asi, worker, requests, overlaps, job, loop, pacing>>

\* lines 819-829: the status read after the format change and the wait for idle
snapshot_idle(t) ==
    /\ th[t].pc = "snap_idle"
    /\ \E r \in ASIGetExpStatus(asi) :
         /\ asi' = r[2]
         /\ th' = [th EXCEPT ![t] =
                     IF r[1] = ASI_EXP_IDLE
                     THEN Call([th[t] EXCEPT !.polls = 0], "cap_entry", "snap_resume")
                     ELSE IF th[t].polls < MaxPolls
                          THEN [th[t] EXCEPT !.polls = waited(@)]
                          ELSE [th[t] EXCEPT !.polls = 0, !.pc = "snap_force"]]
    /\ NoResponse
    /\ UNCHANGED <<camera, camera_state, sequence_state, worker, requests, overlaps, job, loop, pacing>>

\* lines 829-835: the forced ASIStopExposure
snapshot_force(t) ==
    /\ th[t].pc = "snap_force"
    /\ asi' = ASIStopExposure(asi)
    /\ th' = [th EXCEPT ![t] = Call(th[t], "cap_entry", "snap_resume")]
    /\ NoResponse
    /\ UNCHANGED <<camera, camera_state, sequence_state, worker, requests, overlaps, job, loop, pacing>>

\* lines 849-858
snapshot_result(t) ==
    IF th[t].img = "img" THEN Respond(t, 200, "image/jpeg")
    ELSE Respond(t, 500, "Failed to capture snapshot - camera returned None")

\* lines 837-858: capture_snapshot has returned
snapshot_resume(t) ==
    /\ th[t].pc = "snap_resume"
    /\ IF th[t].was_streaming
       THEN /\ IF th[t].format_applied
               THEN \E r \in ASISetROIFormat(asi, ASI_IMG_RGB24) : asi' = r[2]
               ELSE asi' = asi
            /\ th' = [th EXCEPT ![t] = Call(th[t], "st_begin", "snap_respond")]
            /\ NoResponse
       ELSE /\ asi' = asi
            /\ snapshot_result(t)
    /\ UNCHANGED <<camera, camera_state, sequence_state, worker, requests, overlaps, job, loop, pacing>>

\* lines 849-858, after the stream was restarted
snapshot_respond(t) ==
    /\ th[t].pc = "snap_respond"
    /\ snapshot_result(t)
    /\ UNCHANGED <<camera, camera_state, sequence_state, asi, worker, requests, overlaps, job, loop, pacing>>

\* Handlers that restart the stream whenever it is off, or never, to compare
\* with resume_after_exception.
resume_when_off(rec) == ~camera.streaming

resume_never(rec) == FALSE

\* line 865
resume_after_exception(rec) == rec.was_streaming /\ ~camera.streaming

\* lines 860-870: the handler of an exception
snapshot_except(t) ==
    /\ th[t].pc = "snap_except"
    /\ IF resume_after_exception(th[t])
       THEN /\ th' = [th EXCEPT ![t] = Call(th[t], "st_begin", "snap_except_respond")]
            /\ NoResponse
       ELSE Respond(t, 500, "Exception")
    /\ UNCHANGED <<camera, camera_state, sequence_state, asi, worker, requests, overlaps, job, loop, pacing>>

\* line 870, after the stream was restarted
snapshot_except_respond(t) ==
    /\ th[t].pc = "snap_except_respond"
    /\ Respond(t, 500, "Exception")
    /\ UNCHANGED <<camera, camera_state, sequence_state, asi, worker, requests, overlaps, job, loop, pacing>>

(***************************************************************************)
(* update_settings (route).  A request carries one setting.                *)
(***************************************************************************)
\* The gain of a request is given in halves: 121 is the JSON number 60.5.
GainInputs == {120, 121}

\* int(data['gain']) on line 904 truncates towards zero
PyInt(h) == IF h >= 0 THEN h \div 2 ELSE -((-h) \div 2)

\* A handler that stores the gain only when the device is open, to compare
\* with settings_gain.
settings_gain_if_open(h, old) == IF camera.is_open THEN PyInt(h) ELSE old

\* lines 904-905
settings_gain(h, old) == PyInt(h)

\* The read-back on line 918: a device that is capturing video may not have
\* taken the new gain.
gain_applied == IF asi.open /\ asi.video THEN {TRUE, FALSE} ELSE {TRUE}

\* lines 903-936 up to the stop of the stream, and lines 1013-1019
route_settings_gain(t, serial, h) ==
    /\ Arrive(t, serial, FALSE)
    /\ camera_state' = [camera_state EXCEPT !.gain = settings_gain(h, camera_state.gain)]
    /\ LET rec == [Enter("update_settings") EXCEPT
                      !.arg = h, !.was_streaming = camera_state.streaming]
       IN  \E applied \in gain_applied :
             IF camera.is_open /\ camera_state.streaming /\ ~applied
             THEN /\ th' = [th EXCEPT ![t] = Call(rec, "sp_clear", "set_restart")]
                  /\ NoResponse
             ELSE ReplyGain(t, rec, 200, "success",
                            settings_gain(h, camera_state.gain))
    /\ UNCHANGED <<camera, sequence_state, asi, worker, job, loop, pacing>>

VideoExposureInputs == {DEFAULT_VIDEO_EXPOSURE, LONG_VIDEO_EXPOSURE}

\* lines 944-957
route_settings_video_exposure(t, serial, v) ==
    /\ Arrive(t, serial, FALSE)
    /\ camera_state' = [camera_state EXCEPT !.video_exposure = v]
    /\ IF camera.is_open /\ camera_state.streaming
       THEN /\ th' = [th EXCEPT ![t] =
                        Call([Enter("update_settings") EXCEPT !.was_streaming = TRUE],
                             "sp_clear", "set_restart")]
            /\ NoResponse
       ELSE Reply(t, Enter("update_settings"), 200, "success")
    /\ UNCHANGED <<camera, sequence_state, asi, worker, job, loop, pacing>>

\* lines 929-931 and lines 959-983: the controls, then the restart
settings_restart(t) ==
    /\ th[t].pc = "set_restart"
    /\ th' = [th EXCEPT ![t] = Call(th[t], "st_begin", "set_done")]
    /\ NoResponse
    /\ UNCHANGED <<camera, camera_state, sequence_state, asi, worker, requests, overlaps, job, loop, pacing>>

\* lines 1013-1019
settings_done(t) ==
    /\ th[t].pc = "set_done"
    /\ ReplyGain(t, th[t], 200, "success", camera_state.gain)
    /\ UNCHANGED <<camera, camera_state, sequence_state, asi, worker, requests, overlaps, job, loop, pacing>>

\* format_map on lines 988-993, with one name it does not hold
FormatInputs == {"RGB24", "RAW16", "BMP"}

format_map(name) ==
    IF name = "RGB24" THEN ASI_IMG_RGB24 ELSE ASI_IMG_RAW16

\* lines 987-1004
route_settings_image_format(t, serial, name) ==
    /\ Arrive(t, serial, FALSE)
    /\ camera_state' = IF name \in {"RGB24", "RAW16"}
                       THEN [camera_state EXCEPT !.image_format = format_map(name)]
                       ELSE camera_state
    /\ Reply(t, Enter("update_settings"), 200, "success")
    /\ UNCHANGED <<camera, sequence_state, asi, worker, job, loop, pacing>>

(***************************************************************************)
(* start_sequence, stop_sequence (routes)                                  *)
(***************************************************************************)
\* The JSON bodies a start-sequence request is tried with.
SeqInputs ==
    << [data |-> TRUE,  save_path |-> "dir",     count |-> 2,  file_format |-> "JPEG", interval |-> 0],
       [data |-> TRUE,  save_path |-> "dir",     count |-> 1,  file_format |-> "PNG",  interval |-> 10],
       [data |-> FALSE, save_path |-> "dir",     count |-> 1,  file_format |-> "JPEG", interval |-> 0],
       [data |-> TRUE,  save_path |-> "",        count |-> 1,  file_format |-> "JPEG", interval |-> 0],
       [data |-> TRUE,  save_path |-> "missing", count |-> 1,  file_format |-> "JPEG", interval |-> 0],
       [data |-> TRUE,  save_path |-> "dir",     count |-> 0,  file_format |-> "JPEG", interval |-> 0],
       [data |-> TRUE,  save_path |-> "dir",     count |-> MAX_COUNT + 1, file_format |-> "JPEG", interval |-> 0],
       [data |-> TRUE,  save_path |-> "dir",     count |-> 1,  file_format |-> "BMP",  interval |-> 0],
       [data |-> TRUE,  save_path |-> "dir",     count |-> 1,  file_format |-> "JPEG", interval |-> -1] >>

\* The checks without the one for an active job, to compare with
\* start_sequence_check.
start_sequence_check_no_active(i) ==
    IF ~i.data THEN <<400, "No JSON data received">>
    ELSE IF i.save_path = "" THEN <<400, "Save path cannot be empty">>
    ELSE IF i.interval < 0 THEN <<400, "Interval must be >= 0">>
    ELSE IF i.save_path # "dir" THEN <<400, "Save path does not exist on server">>
    ELSE IF i.count < 1 \/ i.count > MAX_COUNT
         THEN <<400, "Count must be between 1 and 10000">>
    ELSE IF i.file_format \notin {"JPEG", "PNG", "TIFF"}
         THEN <<400, "File format must be JPEG, PNG, or TIFF">>
    ELSE IF ~camera_state.connected \/ ~camera.is_open THEN <<500, "Camera not connected">>
    ELSE <<0, "">>

\* lines 1030-1089: the response that rejects the request, or code 0
start_sequence_check(i) ==
    IF ~i.data THEN <<400, "No JSON data received">>
    ELSE IF sequence_state.active THEN <<400, "Sequence capture already in progress">>
    ELSE IF i.save_path = "" THEN <<400, "Save path cannot be empty">>
    ELSE IF i.interval < 0 THEN <<400, "Interval must be >= 0">>
    ELSE IF i.save_path # "dir" THEN <<400, "Save path does not exist on server">>
    ELSE IF i.count < 1 \/ i.count > MAX_COUNT
         THEN <<400, "Count must be between 1 and 10000">>
    ELSE IF i.file_format \notin {"JPEG", "PNG", "TIFF"}
         THEN <<400, "File format must be JPEG, PNG, or TIFF">>
    ELSE IF ~camera_state.connected \/ ~camera.is_open THEN <<500, "Camera not connected">>
    ELSE <<0, "">>

\* lines 1022-1089
route_start_sequence(t, serial, n) ==
    /\ Arrive(t, serial, TRUE)
    /\ LET c == start_sequence_check(SeqInputs[n])
       IN  IF c[1] # 0
           THEN Reply(t, Enter("start_sequence"), c[1], c[2])
           ELSE /\ th' = [th EXCEPT ![t] =
                            [Enter("start_sequence") EXCEPT !.pc = "sq_init", !.arg = n]]
                /\ NoResponse
    /\ UNCHANGED <<camera, camera_state, sequence_state, asi, worker, job, loop, pacing>>

FreeSeq == CHOOSE s \in SeqThreads :
               th[s].pc = "idle" /\ \A v \in SeqThreads : th[v].pc = "idle" => s <= v

\* lines 1091-1113: the job is written, the orchestrator thread is started
start_sequence_init(t) ==
    /\ th[t].pc = "sq_init"
    /\ \E s \in SeqThreads : th[s].pc = "idle"
    /\ sequence_state' =
          [active |-> TRUE, total_count |-> SeqInputs[th[t].arg].count,
           current_count |-> 0, file_format |-> SeqInputs[th[t].arg].file_format,
           interval |-> SeqInputs[th[t].arg].interval, thread |-> FreeSeq]
    /\ th' = [th EXCEPT ![t] = IdleThread,
                        ![FreeSeq] = [Enter("sequence_capture_loop") EXCEPT
                                         !.pc = "seq_top"]]
    /\ job' = IF NoJob THEN [saved |-> <<>>, clean |-> TRUE] ELSE NoFrames
    /\ last' = [NoLast EXCEPT !.t = t, !.op = "start_sequence", !.code = 200,
                              !.body = "success", !.arg = th[t].arg]
    /\ UNCHANGED <<camera, camera_state, asi, worker, requests, overlaps, loop, pacing>>

\* lines 1116-1121
route_stop_sequence(t, serial) ==
    /\ Arrive(t, serial, TRUE)
    /\ IF ~sequence_state.active
       THEN /\ Reply(t, Enter("stop_sequence"), 400, "No sequence capture in progress")
            /\ sequence_state' = sequence_state
            /\ job' = job
       ELSE /\ sequence_state' = [sequence_state EXCEPT !.active = FALSE]
            /\ job' = NoFrames
            /\ th' = [th EXCEPT ![t] = [Enter("stop_sequence") EXCEPT !.pc = "sz_join"]]
            /\ NoResponse
    /\ UNCHANGED <<camera, camera_state, asi, worker, loop, pacing>>

\* A fast mode without the floor of one second, to compare with wait_time.
wait_time_unfloored(interval, exposure) ==
    IF interval > 0 THEN interval * 1000000 ELSE exposure + 500000

\* lines 685-695: the delay before the next frame, in microseconds, for an
\* interval in seconds and an exposure in microseconds
wait_time(interval, exposure) ==
    IF interval > 0 THEN interval * 1000000
    ELSE Max(exposure + 500000, 1000000)

\* lines 686-695, in milliseconds
wait_time_ms(interval, exposure) == wait_time(interval, exposure) \div 1000

\* join(timeout=5.0) gives up on an orchestrator that is inside an exposure
\* wait, which lasts up to exposure // 1000 + 5000 ms (line 516), or inside a
\* pacing delay that is longer than the join's.
SeqJoinTimesOut(s) ==
    /\ s \in SeqThreads
    /\ \/ th[s].pc = "cap_poll"
       \/ /\ th[s].pc = "seq_sleep"
          /\ wait_time_ms(sequence_state.interval, DEFAULT_EXPOSURE) > SEQ_JOIN_TIMEOUT_MS

SeqJoinReturns(s) == s \notin SeqThreads \/ th[s].pc = "idle" \/ SeqJoinTimesOut(s)

\* lines 1123-1134: the bounded join on sequence_state['thread']
stop_sequence_join(t) ==
    /\ th[t].pc = "sz_join"
    /\ SeqJoinReturns(sequence_state.thread)
    /\ Respond(t, 200, "Sequence capture stopped")
    /\ UNCHANGED <<camera, camera_state, sequence_state, asi, worker, requests, overlaps, job, loop, pacing>>

(***************************************************************************)
(* sequence_capture_loop                                                   *)
(***************************************************************************)
\* A test that lets one frame too many through, to compare with job_done.
job_done_late(st) == st.current_count > st.total_count

\* line 616
job_done(st) == st.current_count >= st.total_count

\* lines 614-625, and line 704 when the loop ends
sequence_loop_top(s) ==
    /\ th[s].pc = "seq_top"
    /\ IF ~sequence_state.active \/ job_done(sequence_state)
       THEN /\ sequence_state' = [sequence_state EXCEPT !.active = FALSE]
            /\ th' = [th EXCEPT ![s] = IdleThread]
       ELSE /\ sequence_state' = sequence_state
            /\ th' = [th EXCEPT ![s] =
                        LET rec == [th[s] EXCEPT !.was_streaming = camera.streaming]
                        IN  IF camera.streaming
                            THEN Call(rec, "sp_clear", "seq_idle")
                            ELSE [rec EXCEPT !.pc = "seq_format"]]
    /\ NoResponse
    /\ UNCHANGED <<camera, camera_state, asi, worker, requests, overlaps, job, loop, pacing>>

\* lines 627-632
sequence_loop_idle(s) ==
    /\ th[s].pc = "seq_idle"
    /\ \E r \in ASIGetExpStatus(asi) :
         asi' = IF r[1] # ASI_EXP_IDLE THEN ASIStopExposure(r[2]) ELSE r[2]
    /\ th' = [th EXCEPT ![s].pc = "seq_format"]
    /\ NoResponse
    /\ UNCHANGED <<camera, camera_state, sequence_state, worker, requests, overlaps, job, loop, pacing>>

\* lines 634-645
sequence_loop_format(s) ==
    /\ th[s].pc = "seq_format"
    /\ IF camera_state.image_format # ASI_IMG_RGB24
       THEN \E r \in ASISetROIFormat(asi, camera_state.image_format) : asi' = r[2]
       ELSE asi' = asi
    /\ th' = [th EXCEPT ![s] =
                Call([th[s] EXCEPT !.format_applied =
                                      camera_state.image_format # ASI_IMG_RGB24],
                     "cap_entry", "seq_after")]
    /\ NoResponse
    /\ UNCHANGED <<camera, camera_state, sequence_state, worker, requests, overlaps, job, loop, pacing>>

\* lines 647-653
sequence_loop_after(s) ==
    /\ th[s].pc = "seq_after"
    /\ IF th[s].was_streaming /\ th[s].format_applied
       THEN \E r \in ASISetROIFormat(asi, ASI_IMG_RGB24) : asi' = r[2]
       ELSE asi' = asi
    /\ th' = [th EXCEPT ![s] =
                IF th[s].was_streaming THEN Call(th[s], "st_begin", "seq_eval")
                ELSE [th[s] EXCEPT !.pc = "seq_eval"]]
    /\ NoResponse
    /\ UNCHANGED <<camera, camera_state, sequence_state, worker, requests, overlaps, job, loop, pacing>>

\* A loop that ends the job at a failed capture, to compare with evaluate.
evaluate_or_abort(st, img) ==
    IF img = "img" THEN [st EXCEPT !.current_count = @ + 1]
    ELSE [st EXCEPT !.active = FALSE]

\* lines 655-658 and 682-683: a frame is counted, a failure is logged
evaluate(st, img) ==
    IF img = "img" THEN [st EXCEPT !.current_count = @ + 1] ELSE st

\* lines 655-683: the frame is counted, then written through img.save, which
\* may raise
sequence_loop_eval(s) ==
    /\ th[s].pc = "seq_eval"
    /\ sequence_state' = evaluate(sequence_state, th[s].img)
    /\ IF th[s].img = "img"
       THEN \E written \in BOOLEAN :
              IF written
              THEN /\ job' = IF job.clean
                               THEN [job EXCEPT !.saved = Append(@, sequence_state'.current_count)]
                               ELSE job
                   /\ th' = [th EXCEPT ![s].pc = "seq_sleep"]
              ELSE /\ job' = NoFrames
                   /\ th' = [th EXCEPT ![s].pc = "seq_except"]
       ELSE /\ job' = job
            /\ th' = [th EXCEPT ![s].pc = "seq_sleep"]
    /\ NoResponse
    /\ UNCHANGED <<camera, camera_state, asi, worker, requests, overlaps, loop, pacing>>

\* lines 685-695: the pacing delay
sequence_loop_sleep(s) ==
    /\ th[s].pc = "seq_sleep"
    /\ th' = [th EXCEPT ![s] = [Enter("sequence_capture_loop") EXCEPT !.pc = "seq_top"]]
    /\ NoResponse
    /\ UNCHANGED <<camera, camera_state, sequence_state, asi, worker, requests, overlaps, job, loop, pacing>>

\* lines 697-701
sequence_loop_except(s) ==
    /\ th[s].pc = "seq_except"
    /\ th' = [th EXCEPT ![s] = [Enter("sequence_capture_loop") EXCEPT !.pc = "seq_top"]]
    /\ NoResponse
    /\ UNCHANGED <<camera, camera_state, sequence_state, asi, worker, requests, overlaps, job, loop, pacing>>

(***************************************************************************)
(* The next-state relation.                                                *)
(***************************************************************************)
\* The bodies tried: all of them by the client that sends one request at a
\* time, all but the job of two frames when requests overlap.
SeqInputNumbers(serial) == IF serial THEN 1..Len(SeqInputs) ELSE 2..Len(SeqInputs)

Arrival(serial) ==
    \E t \in ReqThreads :
        \/ route_connect(t, serial)
        \/ route_disconnect(t, serial)
        \/ route_start_stream(t, serial)
        \/ route_stop_stream(t, serial)
        \/ route_snapshot(t, serial)
        \/ \E h \in GainInputs : route_settings_gain(t, serial, h)
        \/ \E v \in VideoExposureInputs : route_settings_video_exposure(t, serial, v)
        \/ \E name \in FormatInputs : route_settings_image_format(t, serial, name)
        \/ \E n \in SeqInputNumbers(serial) : route_start_sequence(t, serial, n)
        \/ route_stop_sequence(t, serial)

RouteStep ==
    \E t \in ReqThreads :
        \/ disconnect_close(t)
        \/ route_start_stream_done(t)
        \/ route_stop_stream_done(t)
        \/ snapshot_format(t)
        \/ snapshot_refused(t)
        \/ snapshot_idle(t)
        \/ snapshot_force(t)
        \/ snapshot_resume(t)
        \/ snapshot_respond(t)
        \/ snapshot_except(t)
        \/ snapshot_except_respond(t)
        \/ settings_restart(t)
        \/ settings_done(t)
        \/ start_sequence_init(t)
        \/ stop_sequence_join(t)

MethodStep ==
    \E t \in Threads :
        \/ start_stream_begin(t)
        \/ start_stream_flag(t)
        \/ start_stream_thread(t)
        \/ stop_stream_clear(t)
        \/ stop_stream_join(t)
        \/ capture_snapshot_entry(t)
        \/ capture_snapshot_start(t)
        \/ capture_snapshot_poll(t)
        \/ capture_snapshot_fetch(t)

\* The steps of capture_snapshot that are taken only when another thread has
\* started the stream since the caller stopped it.
RaceStep ==
    \E t \in Threads :
        \/ capture_snapshot_again(t)
        \/ capture_snapshot_retry_stop(t)
        \/ capture_snapshot_retry(t)

WorkerStep ==
    \/ \E w \in Workers : capture_loop_check(w) \/ capture_loop_pull(w, FALSE)
    \/ \E s \in SeqThreads :
          \/ sequence_loop_top(s)
          \/ sequence_loop_idle(s)
          \/ sequence_loop_format(s)
          \/ sequence_loop_after(s)
          \/ sequence_loop_eval(s)
          \/ sequence_loop_sleep(s)
          \/ sequence_loop_except(s)

Next == Arrival(FALSE) \/ RouteStep \/ MethodStep \/ RaceStep \/ WorkerStep

NextSerial == Arrival(TRUE) \/ RouteStep \/ MethodStep \/ WorkerStep

\* Requests arrive on concurrent threads (app.run(threaded=True), line 1259).
Spec == Init /\ [][Next]_vars

\* Every thread that can take a step takes one in the end, and so does every
\* _capture_loop thread.
Progress(t) == (RouteStep \/ MethodStep \/ RaceStep \/ WorkerStep) /\ th'[t] # th[t]

WorkerProgress(w) == WorkerStep /\ worker'[w] # worker[w]

Fairness ==
    /\ \A t \in Threads : WF_vars(Progress(t))
    /\ \A w \in Workers : WF_vars(WorkerProgress(w))

\* A device that captures video delivers a frame in the end to a loop that
\* keeps pulling.
FrameDelivered(w) == capture_loop_pull(w, FALSE) /\ camera'.frame_buffer = "new"

\* Requests arrive one at a time.  RaceStep is left out: SerialNoRace says
\* that no thread comes to stand before one of its steps.
SpecSerial == Init /\ [][NextSerial]_vars

SpecSerialFair == SpecSerial /\ Fairness

\* One start-stream request, then its _capture_loop thread alone, observed.
NextLoop ==
    \/ \E t \in ReqThreads :
          \/ requests = 0 /\ route_start_stream(t, TRUE)
          \/ start_stream_begin(t)
          \/ start_stream_flag(t)
          \/ start_stream_thread(t)
          \/ route_start_stream_done(t)
    \/ \E w \in Workers : capture_loop_check(w) \/ capture_loop_pull(w, TRUE)

SpecLoop == Init /\ [][NextLoop]_vars

\* line 945: the video exposures a settings request is tried with, in
\* microseconds; int() takes any integer, and no range is checked
TimeoutExposures ==
    {-400000, 0, 1250, DEFAULT_VIDEO_EXPOSURE, LONG_VIDEO_EXPOSURE, 2249999, 2250000,
     10000000}

\* Start-stream and video-exposure requests, one at a time, and the
\* _capture_loop threads.
NextTimeout ==
    \/ \E t \in ReqThreads :
          \/ route_start_stream(t, TRUE)
          \/ \E v \in TimeoutExposures : route_settings_video_exposure(t, TRUE, v)
          \/ start_stream_begin(t)
          \/ start_stream_flag(t)
          \/ start_stream_thread(t)
          \/ route_start_stream_done(t)
          \/ stop_stream_clear(t)
          \/ stop_stream_join(t)
          \/ settings_restart(t)
          \/ settings_done(t)
    \/ \E w \in Workers : capture_loop_check(w) \/ capture_loop_pull(w, FALSE)

SpecTimeout == Init /\ [][NextTimeout]_vars

\* line 1056 and line 1059: the intervals a job can be started with, in seconds
PacingIntervals == {0, 1, 2, 5, 10, 60}

\* lines 938-940: photo exposures, in microseconds
PacingExposures ==
    {32, 1000, 100000, 499999, 500000, 500001, DEFAULT_EXPOSURE, 2000000, 10000000}

\* The pacing delay observed alone: a job's interval and the photo exposure
\* are drawn, the rest is as after construction.
InitPacing ==
    /\ \E i \in PacingIntervals, e \in PacingExposures :
          pacing = [interval |-> i, exposure |-> e, wait_time |-> -1]
    /\ InitProgram

\* lines 685-695: wait_time is computed
sequence_loop_wait_time ==
    /\ pacing.wait_time = -1
    /\ pacing' = [pacing EXCEPT !.wait_time = wait_time(pacing.interval, pacing.exposure)]
    /\ UNCHANGED <<camera, camera_state, sequence_state, asi, th, worker, requests,
                   overlaps, job, loop, last>>

SpecPacing == InitPacing /\ [][sequence_loop_wait_time]_vars

SpecSerialFrames == SpecSerialFair /\ \A w \in Workers : SF_vars(FrameDelivered(w))

SerialNoRace ==
    \A t \in Threads : th[t].pc \notin {"cap_again", "cap_retry_stop", "cap_retry"}

(***************************************************************************)
(* Properties.                                                             *)
(***************************************************************************)
\* A thread is inside an exposure of capture_snapshot: ASIStartExposure has
\* succeeded and the status poll or the pixel fetch is still to return.
Exposing(t) == th[t].pc \in {"cap_poll", "cap_fetch"}

\* A thread is inside capture_snapshot.
InCapture(t) ==
    th[t].pc \in {"cap_entry", "cap_again", "cap_start", "cap_retry_stop",
                  "cap_retry", "cap_poll", "cap_fetch"}
    \/ (th[t].stack # <<>> /\ \E i \in 1..Len(th[t].stack) :
           th[t].stack[i] \in {"cap_again", "cap_start"})

Pulling(w) == worker[w].pc = "pull"

InFlight(t) == th[t].pc # "idle"

Quiescent == \A t \in Threads : ~InFlight(t)

StreamOn ==
    camera.streaming /\ camera_state.streaming /\ asi.video
    /\ Alive(camera.capture_thread)

StreamOff == ~camera.streaming /\ ~camera_state.streaming /\ ~asi.video

\* C1: no _capture_loop worker is pulling video frames while a thread is
\* inside an exposure of capture_snapshot, whatever the interleaving of the
\* requests.
C1_NoPullDuringExposure ==
    ~(\E w \in Workers, t \in Threads : Pulling(w) /\ Exposing(t))

\* C2: at most one of these is active at any instant: the streaming flag, a
\* capture_snapshot call made for a snapshot request, the active flag of
\* sequence_state.
C2_AtMostOneMode ==
    LET streaming == camera.streaming
        snapshot == \E t \in ReqThreads : th[t].op = "snapshot" /\ InCapture(t)
        sequence == sequence_state.active
    IN  ~(streaming /\ snapshot) /\ ~(streaming /\ sequence) /\ ~(snapshot /\ sequence)

TransitionOps ==
    {"start_stream", "stop_stream", "snapshot", "start_sequence", "stop_sequence",
     "disconnect", "update_settings"}

\* C3: mode transitions are serialized: no two transition operations are
\* between their first and their last step at the same time.
C3_TransitionsSerialized ==
    \A t, u \in ReqThreads :
        (t # u /\ InFlight(t) /\ th[t].op \in TransitionOps)
            => ~(InFlight(u) /\ th[u].op \in TransitionOps)

\* C4: whenever no request is in flight and no job is running, the streaming
\* flag is true exactly when the device captures video and a streaming-loop
\* worker is alive, and no exposure is left in progress on the device.
C4_ConsistentWhenQuiescent ==
    Quiescent =>
        /\ camera.streaming <=> (asi.video /\ Alive(camera.capture_thread))
        /\ asi.exp # ASI_EXP_WORKING

\* C5: a snapshot request that found the stream off, served with no other
\* request beside it, returns with the stream off and with no thread inside
\* capture_snapshot, whatever the outcome of the capture.
C5_SnapshotEndsIdle ==
    (last.op = "snapshot" /\ ~last.was_streaming)
        => (StreamOff /\ \A t \in Threads : ~InCapture(t))

C5_Witness ==
    /\ last.op = "snapshot"
    /\ ~last.was_streaming
    /\ last.body = "Exception"
    /\ camera.is_open

C7_ResumeFailureReported ==
    (last.op = "snapshot" /\ last.was_streaming /\ last.success = "False")
        => last.code # 200

\* A step of a stop-stream request made while the stream is off, and the
\* return of a stop-stream request.
C8_StopWhenIdle ==
    /\ \A t \in ReqThreads :
          (th[t].op = "stop_stream" /\ th'[t] # th[t] /\ StreamOff)
              => /\ camera' = camera
                 /\ camera_state' = camera_state
                 /\ asi' = asi
                 /\ worker' = worker
    /\ last'.op = "stop_stream" => (last'.code = 200 /\ StreamOff')

\* C8: a step of a stop-stream request made while the stream is off changes
\* neither the flags, nor the workers, nor the device; the request answers
\* success and leaves the stream off, so that a second stop-stream is such a
\* request.
C8_StopStreamIdempotent == [][C8_StopWhenIdle]_vars

C8_Witness ==
    /\ last.op = "stop_stream"
    /\ requests = 2
    /\ asi.exp = ASI_EXP_WORKING

\* C9 as stated: the settings returned for an update of the gain hold the
\* gain of the request, for every gain.
C9_GainRoundTripAnyValue ==
    (last.op = "update_settings" /\ last.arg # 0)
        => (last.gain * 2 = last.arg /\ camera_state.gain = last.gain)

\* C9: the settings returned for an update of the gain hold the gain of the
\* request, for every integer gain, with the device closed, open or
\* streaming, and with or without a restart of the stream.
C9_GainRoundTrip ==
    (last.op = "update_settings" /\ last.arg # 0 /\ last.arg % 2 = 0)
        => (last.gain * 2 = last.arg /\ camera_state.gain = last.gain)

C9_Witness ==
    /\ last.op = "update_settings"
    /\ last.arg # 0
    /\ last.arg % 2 = 0
    /\ last.was_streaming
    /\ last.success = "True"

ValidInput(i) ==
    /\ i.data
    /\ i.save_path = "dir"
    /\ i.interval >= 0
    /\ i.count >= 1 /\ i.count <= MAX_COUNT
    /\ i.file_format \in {"JPEG", "PNG", "TIFF"}

\* The step on which a start-sequence request passes or fails its checks.
C10_StartSequenceStep ==
    /\ \A t \in ReqThreads :
          (th[t].pc = "idle" /\ th'[t].pc = "sq_init")
              => /\ ~sequence_state.active
                 /\ camera.is_open /\ camera_state.connected
                 /\ ValidInput(SeqInputs[th'[t].arg])
    /\ (last'.op = "start_sequence" /\ last'.code # 200)
          => /\ sequence_state' = sequence_state
             /\ \A s \in SeqThreads : th'[s] = th[s]

\* C10: a start-sequence request goes past its checks only when no job is
\* active, the device is open and the request is valid; a request that is
\* rejected starts no orchestrator and leaves sequence_state as it was.
C10_RejectedStartSequence == [][C10_StartSequenceStep]_vars

C10_Witness ==
    /\ last.op = "start_sequence"
    /\ last.body = "Sequence capture already in progress"
    /\ sequence_state.active

\* The step that ends an iteration of the orchestrator s.
IterationEnd(s) == th[s].pc \in {"seq_sleep", "seq_except"} /\ th'[s].pc = "seq_top"

StopInProgress == \E t \in ReqThreads : th[t].pc = "sz_join"

\* A step on which completed changes after stop-sequence has returned.
C12_StoppedStep ==
    (~sequence_state.active /\ ~StopInProgress)
        => \/ sequence_state'.current_count = sequence_state.current_count
           \/ \E t \in ReqThreads : th[t].pc = "sq_init" /\ th'[t].pc = "idle"

\* C12: once stop-sequence has returned, active is false and completed keeps
\* the value it had, until a new job is started.
C12_StopFreezesCompleted == [][C12_StoppedStep]_vars

\* C14: completed <= total in every reachable state.
C14_CompletedAtMostTotal ==
    sequence_state.current_count <= sequence_state.total_count

\* The iteration of s ends with streaming, found active, not resumed.
C16_ResumedStep ==
    \A s \in SeqThreads :
        (IterationEnd(s) /\ th[s].was_streaming)
            => /\ th[s].success # "none"
               /\ th[s].success = "True" => (camera'.streaming /\ asi'.video)

\* C16: every iteration of the orchestrator that found streaming active has
\* called start_stream before it ends, on every outcome of the capture, and
\* ends with the stream on unless start_stream reported a failure.
C16_IterationResumesStream == [][C16_ResumedStep]_vars

\* C17: when the capture_snapshot of a snapshot request comes to start its
\* exposure, no earlier exposure is still in progress on the device, so that
\* a snapshot after a timed-out one is accepted by the device.
C17_NextSnapshotCanStart ==
    \A t \in ReqThreads :
        (th[t].op = "snapshot" /\ th[t].pc = "cap_start") => asi.exp # ASI_EXP_WORKING

\* A step of capture_snapshot that is not the raising of an error.
C18_ReturnStep ==
    \A t \in Threads :
        InCapture(t) => th'[t].pc \notin {"snap_except", "seq_except"}

\* C18: no step of capture_snapshot takes its caller to the caller's handler
\* of errors: capture_snapshot leaves by a return only.
C18_CaptureNeverRaises == [][C18_ReturnStep]_vars

\* The orchestrator of the job started last has ended.
JobEnded ==
    sequence_state.thread \in SeqThreads /\ th[sequence_state.thread].pc = "idle"

\* C11: in a job with no stop requested, every frame taken by the sink and no
\* orchestrator of an earlier job about, the files written are those of the
\* positions 1, 2, ..., completed in this order, completed never passes the
\* total, and the job ends with active false and completed equal to the total.
C11_FramesInOrder ==
    job.clean =>
        /\ job.saved = [i \in 1..sequence_state.current_count |-> i]
        /\ sequence_state.current_count <= sequence_state.total_count
        /\ JobEnded => (~sequence_state.active
                        /\ sequence_state.current_count = sequence_state.total_count)

C11_Witness ==
    /\ job.clean
    /\ JobEnded
    /\ sequence_state.interval = 0
    /\ sequence_state.total_count = 2
    /\ job.saved = <<1, 2>>
    /\ ~sequence_state.active

\* A step of the orchestrator after a capture that failed or raised.
C15_FailedCaptureStep ==
    \A s \in SeqThreads :
        /\ (th[s].pc = "seq_eval" /\ th[s].img # "img" /\ th'[s] # th[s])
              => (sequence_state' = sequence_state /\ th'[s].pc = "seq_sleep")
        /\ (th[s].pc = "seq_except" /\ th'[s] # th[s])
              => (sequence_state' = sequence_state /\ th'[s].pc = "seq_top")
        /\ (th[s].pc = "seq_sleep" /\ th'[s] # th[s]) => th'[s].pc = "seq_top"

C13_JobEnds == sequence_state.active ~> ~sequence_state.active

\* A snapshot request that found the stream on has just returned, and the
\* stream is on again.
SnapshotResumed ==
    last.op = "snapshot" /\ last.was_streaming /\ StreamOn

Waiting(t) ==
    InFlight(t) /\ th[t].op \in {"snapshot", "stop_stream", "stop_sequence"}

\* t is in the exposure poll, the idle wait of snapshot or a join.
Looping(t) == th[t].pc \in {"cap_poll", "snap_idle", "sp_join", "sz_join"}

\* t is to start a _capture_loop thread and every thread of MaxWorkers is
\* alive.
NoWorkerLeft(t) == th[t].pc = "st_thread" /\ LiveWorkers = Workers

\* C20: every snapshot, stop-stream and stop-sequence request returns, and
\* a thread in the exposure poll, the idle wait or a join leaves it: again
\* and again the thread is not serving such a request, and not in such a
\* loop.
C20_WaitLoopsEnd ==
    /\ \A t \in ReqThreads : []<>(~Waiting(t) \/ NoWorkerLeft(t))
    /\ \A t \in Threads : []<>(~Looping(t))

C20_Witness ==
    \E t \in ReqThreads :
        th[t].op = "snapshot" /\ th[t].pc = "cap_poll" /\ th[t].polls = MaxPolls

\* The observed thread has just made a pull.
Pulled == loop'.pulls = loop.pulls + 1

\* A pull that gave no frame and did not time out.
FailedPull(result) == result \notin {ASI_SUCCESS, ASI_ERROR_TIMEOUT}

C21_PullStep ==
    Pulled =>
        /\ \A w \in Workers : Alive(w) => worker'[w].pc # "dead"
        /\ loop'.result = ASI_SUCCESS => loop'.consecutive_errors = 0
        /\ FailedPull(loop'.result) =>
              /\ loop'.consecutive_errors = loop.consecutive_errors + 1
              /\ loop'.reported <=> \/ loop'.consecutive_errors = 1
                                    \/ loop'.consecutive_errors % 10 = 0

\* C21: a failed pull does not end the loop, it adds one to consecutive_errors
\* and prints the error line when the count is 1 or a multiple of 10 and on no
\* other count; a successful pull sets the count to 0.
C21_ReportsFirstAndTenth == [][C21_PullStep]_vars

C24_PullStep ==
    (Pulled /\ loop'.result = ASI_ERROR_TIMEOUT) =>
        /\ ~loop'.reported
        /\ loop'.consecutive_errors = loop.consecutive_errors
        /\ \A w \in Workers : Alive(w) => worker'[w].pc # "dead"

\* C24: a pull that reports ASI_ERROR_TIMEOUT prints no error line, leaves
\* consecutive_errors as it was and does not end the loop.
C24_TimeoutAbsorbed == [][C24_PullStep]_vars

\* stop_stream, called by t, issues ASIStopVideoCapture and returns.
StopIssued(t) == th[t].pc = "sp_join" /\ th'[t].pc # "sp_join"

C22_StopStep ==
    \A t \in Threads : StopIssued(t) => \A w \in Workers : ~Alive(w)

\* C22: when stop_stream, after its wait, issues ASIStopVideoCapture and
\* returns, no _capture_loop thread is inside a frame pull or still running.
C22_StopAfterWorkerExit == [][C22_StopStep]_vars

C23_StoppedWorkerStep ==
    \A w \in Workers :
        (worker[w].stopped /\ worker[w].pc = "check") => worker'[w].pc # "pull"

\* C23: a _capture_loop thread that was running when a stop_stream cleared
\* the streaming flag starts no frame pull after the one in progress.
C23_NoPullAfterStop == [][C23_StoppedWorkerStep]_vars

\* t returns from the method it is in to its caller.
Returns(t) ==
    /\ th[t].stack # <<>>
    /\ th'[t].pc = Head(th[t].stack)
    /\ th'[t].stack = Tail(th[t].stack)

\* capture_snapshot of t ends with a failure value, and not in its poll.
FailsCapture(t) == Returns(t) /\ th'[t].img = "None"

C25_StartStep ==
    \A t \in Threads :
        /\ (th[t].pc = "cap_start" /\ th'[t] # th[t]) =>
              \/ th'[t].pc = "cap_poll" /\ asi'.exp = ASI_EXP_WORKING
              \/ th'[t].pc = "cap_retry_stop" /\ asi.open /\ asi.video
              \/ FailsCapture(t)
        /\ (th[t].pc = "cap_retry_stop" /\ th'[t] # th[t]) =>
              th'[t].pc = "cap_retry" /\ ~asi'.video
        /\ (th[t].pc = "cap_retry" /\ th'[t] # th[t]) =>
              \/ th'[t].pc = "cap_poll" /\ asi'.exp = ASI_EXP_WORKING
              \/ FailsCapture(t)
        /\ th[t].pc \in {"cap_retry_stop", "cap_retry", "cap_poll", "cap_fetch"} =>
              th'[t].pc \notin {"cap_entry", "cap_again", "cap_start"}
        /\ th[t].pc \in {"cap_retry", "cap_poll", "cap_fetch"} =>
              th'[t].pc # "cap_retry_stop"

\* C25: within one capture ASIStartExposure is called at most twice; the
\* second call is made only after the first was rejected with
\* ASI_ERROR_VIDEO_MODE_ACTIVE and after one ASIStopVideoCapture; any other
\* rejection, and a rejection of the second call, ends the capture with a
\* failure value, without another call and without a status poll.
C25_AtMostOneRetry == [][C25_StartStep]_vars

C25_Witness ==
    \E t \in Threads : th[t].pc = "cap_retry" /\ asi.open /\ ~asi.video

C26_PollStep ==
    \A t \in Threads :
        (th[t].pc = "cap_poll" /\ th'[t] # th[t]) =>
            /\ th'[t].pc = "cap_fetch" => asi'.exp = ASI_EXP_SUCCESS
            /\ asi'.exp = ASI_EXP_FAILED => th'[t].pc \notin {"cap_poll", "cap_fetch"}
            /\ th'[t].pc = "cap_poll" => th[t].polls < MaxPolls
            /\ th[t].polls >= MaxPolls => asi' = asi

\* C26: a poll that reads Failed is the last step of the capture: no poll
\* and no fetch follows; the capture goes to the fetch only from a poll that
\* read Success; and no status is read once the time bound is reached.
C26_FailedIsTerminal == [][C26_PollStep]_vars

C26_Witness ==
    \E t \in Threads :
        th[t].pc \in {"snap_except", "seq_except"} /\ asi.exp = ASI_EXP_FAILED

\* The status the poll did not end with, of Failed and Working.
OtherStatus(status) ==
    IF status = ASI_EXP_FAILED THEN ASI_EXP_WORKING ELSE ASI_EXP_FAILED

C27_FailureStep ==
    \A t \in Threads :
        (th[t].pc = "cap_poll" /\ th'[t].pc \in {"snap_except", "seq_except"}) =>
            th'[t].error # poll_failure(OtherStatus(asi'.exp))

\* C27: what the caller of capture_snapshot sees when the poll ended on the
\* time bound is not what it sees when the poll ended on a Failed status.
C27_TimeoutDistinctFromFailure == [][C27_FailureStep]_vars

\* The caller of the capture read the exposure status before it called
\* capture_snapshot: the snapshot route does after a format change only
\* (lines 814-832), sequence_capture_loop after it stopped the stream only
\* (lines 622-632), and capture_snapshot itself never does (lines 472-492).
StatusChecked(t) ==
    IF th[t].op = "snapshot" THEN th[t].format_applied ELSE th[t].was_streaming

\* C28: a capture that stands before an ASIStartExposure, in a snapshot
\* request or in a job, was preceded by a check of the exposure status.
C28_StatusCheckedBeforeStart ==
    \A t \in Threads :
        th[t].pc \in {"cap_start", "cap_retry"} => StatusChecked(t)

\* An orchestrator that is not the one of the job started last: its job was
\* stopped and another job was started since.
Replaced(s) ==
    /\ th[s].op = "sequence_capture_loop"
    /\ s # sequence_state.thread

C29_ReplacedStep ==
    \A s \in SeqThreads :
        (Replaced(s) /\ th[s].pc = "seq_top") => th'[s].pc \in {"seq_top", "idle"}

\* C29: an orchestrator whose job was stopped leaves the loop at its next
\* test of the flag: it begins no further iteration, hence no further
\* exposure.
C29_StoppedStartsNoExposure == [][C29_ReplacedStep]_vars

\* C30: the delay computed is the interval when the interval is positive,
\* and otherwise the larger of one second and the exposure plus half a
\* second.
C30_DelayIsIntervalOrFloor ==
    pacing.wait_time # -1 =>
        IF pacing.interval > 0
        THEN pacing.wait_time = pacing.interval * 1000000
        ELSE /\ pacing.wait_time >= 1000000
             /\ pacing.wait_time >= pacing.exposure + 500000
             /\ pacing.wait_time \in {1000000, pacing.exposure + 500000}

C30_Witness ==
    /\ pacing.interval = 0
    /\ pacing.exposure < 500000
    /\ pacing.wait_time = 1000000

\* clamp(x, 100000, 5000000), for x in microseconds
Clamp(x) == Max(100000, Min(x, 5000000))

\* The loop test passed and the timeout of the next pull was computed.
Computes(w) == worker[w].pc = "check" /\ worker'[w].pc = "pull"

C31_ExactStep ==
    \A w \in Workers :
        Computes(w) =>
            worker'[w].timeout_ms * 1000 = Clamp(2 * camera_state.video_exposure + 500000)

\* C31 as stated: the timeout computed at the loop test is exactly
\* clamp(2 x exposure_ms + 500, 100, 5000) ms of the video exposure set then.
C31_TimeoutIsClamp == [][C31_ExactStep]_vars

C31_WholeStep ==
    \A w \in Workers :
        Computes(w) =>
            LET x == worker'[w].timeout_ms
                y == 2 * camera_state.video_exposure + 500000
            IN  /\ x >= 100 /\ x <= 5000
                /\ x * 1000 <= Clamp(y)
                /\ Clamp(y) < (x + 1) * 1000

\* C31: the timeout computed at every loop test is
\* clamp(2 x exposure_ms + 500, 100, 5000) ms of the video exposure set at
\* that moment, cut to a whole number of milliseconds, hence in [100, 5000].
C31_TimeoutIsWholeClamp == [][C31_WholeStep]_vars

C31_Witness ==
    \E w \in Workers :
        /\ worker[w].stopped /\ worker[w].pc = "pull"
        /\ camera_state.video_exposure = 1250
        /\ worker[w].timeout_ms = 502

\* C32: while the stream is on, the pixel format configured on the device
\* is RGB24.
C32_StreamingFormatIsRGB24 ==
    (camera.streaming /\ asi.video) => asi.img_type = ASI_IMG_RGB24

\* The flags of the two records and the set of _capture_loop threads are
\* left as they are.
ModeUnchanged ==
    /\ camera'.streaming = camera.streaming
    /\ camera_state'.streaming = camera_state.streaming
    /\ worker' = worker

C33_StartStreamStep ==
    /\ \A t \in Threads :
          (th[t].pc = "st_begin" /\ th'[t].pc # "st_begin") =>
              /\ (~camera.is_open \/ ~asi'.video) => th'[t].pc # "st_flag"
              /\ th'[t].pc # "st_flag" => (th'[t].success = "False" /\ ModeUnchanged)
    /\ \A t \in ReqThreads :
          (th[t].pc = "start_done" /\ th'[t].pc # "start_done") =>
              /\ ModeUnchanged
              /\ last'.code = IF th[t].success = "True" THEN 200 ELSE 500
    /\ ~ModeUnchanged =>
          \/ \E t \in Threads : th[t].pc \in {"st_flag", "st_thread", "sp_clear"}
          \/ \E w \in Workers : worker[w].pc # worker'[w].pc /\ worker[w].pc # "dead"

\* C33: a start_stream that finds the device closed, or whose
\* ASIStartVideoCapture fails, returns False, the route answers 500, and
\* neither flag nor the set of workers is changed; the flags are set and a
\* worker is started only after ASIStartVideoCapture succeeded.
C33_FailedStartChangesNothing == [][C33_StartStreamStep]_vars

C33_Witness ==
    /\ last.op = "start_stream" /\ last.code = 500
    /\ camera.is_open /\ ~camera.streaming /\ ~camera_state.streaming
    /\ \A w \in Workers : ~Alive(w)

\* C34: at most one _capture_loop thread is alive.
C34_AtMostOneWorker == Cardinality(LiveWorkers) <= 1

\* The sequence_capture_loop threads that have not ended.
LiveOrchestrators == {s \in SeqThreads : th[s].pc # "idle"}

\* C35: at most one sequence_capture_loop thread is alive.
C35_AtMostOneOrchestrator == Cardinality(LiveOrchestrators) <= 1

\* The sink raised in this step: img.save did not write the frame.
NotWritten(s) == th[s].pc = "seq_eval" /\ th'[s].pc = "seq_except"

C36_CountStep ==
    \A s \in SeqThreads :
        NotWritten(s) => sequence_state'.current_count = sequence_state.current_count

\* C36: current_count is not increased for a frame that the sink did not
\* write.
C36_CountsPersistedFrames == [][C36_CountStep]_vars

\* Thread t takes a step that calls the SDK with camera.camera_id: the
\* ASISetROIFormat of lines 641 and 790, the ASIStartExposure of lines 492
\* and 507, the ASIStopVideoCapture of line 505, or the ASIGetExpStatus of
\* line 519.
IssuesCall(t) ==
    /\ th'[t] # th[t]
    /\ \/ th[t].pc \in {"cap_start", "cap_retry_stop", "cap_retry"}
       \/ th[t].pc = "cap_poll" /\ th[t].polls < MaxPolls
       \/ th[t].pc \in {"seq_format", "snap_format"}
             /\ camera_state.image_format # ASI_IMG_RGB24

C37_ClosedStep ==
    (~camera.is_open /\ ~asi.open) => \A t \in Threads : ~IssuesCall(t)

\* C37: while the device is closed, no request and no orchestrator takes a
\* step that calls the SDK.
C37_NoCallWhenClosed == [][C37_ClosedStep]_vars

\* C38: when no request is being served and no job has a worker, so that no
\* start_stream, stop_stream or disconnect is in progress, camera.streaming
\* and camera_state['streaming'] are equal.
C38_FlagsAgree ==
    Quiescent => (camera.streaming <=> camera_state.streaming)

=============================================================================
